---------------------------- MODULE Spec2Model ----------------------------
(***************************************************************************)
(* A model of tweet_game (src/nba_game_plots.py): the derivation of the    *)
(* lead statistics and of the elapsed-time axis from the play-by-play,     *)
(* the normalization of the shot coordinates, the leaderboards and the     *)
(* thread of posts.                                                        *)
(*                                                                         *)
(* Numbers.  Clock values and durations are held in hundredths of a        *)
(* second, shot coordinates in hundredths of a foot: Float reads a decimal *)
(* string into hundredths, and a value v of the model stands for the       *)
(* program's float v / 100.  A pandas/numpy cell is a record               *)
(* [nan |-> BOOLEAN, v |-> Int], so that NaN and its propagation are       *)
(* modelled.  Strings the program parses are sequences of characters.      *)
(***************************************************************************)
EXTENDS Integers, Sequences, FiniteSets, TLC

\* ------------------------------------------------------------------ bounds
\* Longest play-by-play drawn for the general family of game logs.
MaxEvents == 3

\* Longest shot chart drawn.
MaxShots == 3

\* Player rows of the box scores drawn.
MaxPlayers == 5

\* Longest injury report drawn.
MaxInjuries == 2

\* ----------------------------------------------------------- number cells
NaN == [nan |-> TRUE, v |-> 0]

Num(n) == [nan |-> FALSE, v |-> n]

Abs(n) == IF n < 0 THEN -n ELSE n

Min2(a, b) == IF a < b THEN a ELSE b

Max2(a, b) == IF a > b THEN a ELSE b

\* ---------------------------------------------------------------- strings
DigitValue(c) ==
    CASE c = "0" -> 0 [] c = "1" -> 1 [] c = "2" -> 2 [] c = "3" -> 3
      [] c = "4" -> 4 [] c = "5" -> 5 [] c = "6" -> 6 [] c = "7" -> 7
      [] c = "8" -> 8 [] c = "9" -> 9

\* str.split(sep): the pieces of s between the occurrences of sep.
RECURSIVE Split(_, _)
Split(s, sep) ==
    IF \A i \in 1..Len(s) : s[i] # sep
    THEN <<s>>
    ELSE LET i == CHOOSE k \in 1..Len(s) :
                      s[k] = sep /\ \A j \in 1..(k - 1) : s[j] # sep
         IN  <<SubSeq(s, 1, i - 1)>> \o Split(SubSeq(s, i + 1, Len(s)), sep)

\* int(s) of a string of digits.
RECURSIVE ParseInt(_)
ParseInt(s) ==
    IF s = <<>> THEN 0
    ELSE ParseInt(SubSeq(s, 1, Len(s) - 1)) * 10 + DigitValue(s[Len(s)])

\* float(s) of a decimal string, in hundredths.
Float(s) ==
    LET parts == Split(s, ".")
        frac  == IF Len(parts) > 1 THEN parts[2] ELSE <<>>
        d1    == IF Len(frac) >= 1 THEN DigitValue(frac[1]) ELSE 0
        d2    == IF Len(frac) >= 2 THEN DigitValue(frac[2]) ELSE 0
    IN  ParseInt(parts[1]) * 100 + d1 * 10 + d2

\* lambda time: int(time.split(":")[0]) * 60 + float(time.split(":")[1])
RemainingSeconds(time) ==
    LET parts == Split(time, ":")
    IN  ParseInt(parts[1]) * 60 * 100 + Float(parts[2])

\* ------------------------------------------------------ series operations
\* Series.diff() of a numeric series: NaN first, then x[i] - x[i-1].
Diff(xs) ==
    [i \in 1..Len(xs) |->
        IF i = 1 \/ xs[i].nan \/ xs[i - 1].nan THEN NaN
        ELSE Num(xs[i].v - xs[i - 1].v)]

\* The differences as they are, upward jumps of the clock included.
Unclipped(xs) == xs

\* np.minimum(xs, 0): NaN stays NaN.
Minimum0(xs) ==
    [i \in 1..Len(xs) |-> IF xs[i].nan THEN NaN ELSE Num(Min2(xs[i].v, 0))]

\* Series.cumsum(): NaN cells are skipped and stay NaN.
RECURSIVE SumTo(_, _)
SumTo(xs, i) ==
    IF i = 0 THEN 0
    ELSE SumTo(xs, i - 1) + (IF xs[i].nan THEN 0 ELSE xs[i].v)

CumSum(xs) ==
    [i \in 1..Len(xs) |-> IF xs[i].nan THEN NaN ELSE Num(SumTo(xs, i))]

\* Series.fillna(0)
FillNa0(xs) == [i \in 1..Len(xs) |-> IF xs[i].nan THEN Num(0) ELSE xs[i]]

\* Series.sum(): NaN cells are skipped.
Sum(xs) == SumTo(xs, Len(xs))

Column(rows, c) == [i \in 1..Len(rows) |-> rows[i][c]]

\* The number cells of a series.
Values(xs) == {xs[i].v : i \in {j \in 1..Len(xs) : ~xs[j].nan}}

MaxOf(vals) ==
    IF vals = {} THEN NaN
    ELSE Num(CHOOSE m \in vals : \A n \in vals : n <= m)

MinOf(vals) ==
    IF vals = {} THEN NaN
    ELSE Num(CHOOSE m \in vals : \A n \in vals : m <= n)

\* Series.max(): NaN cells are skipped; NaN when no number is left.
CellMax(xs) == MaxOf(Values(xs))

\* Series.min(): NaN cells are skipped; NaN when no number is left.
CellMin(xs) == MinOf(Values(xs))

\* frame[name] = cells
SetColumn(rows, name, cells) ==
    [i \in 1..Len(rows) |-> (name :> cells[i]) @@ rows[i]]

\* ------------------------------------------------------------ play-by-play
\* Every row kept, as without drop_duplicates.
KeepDuplicates(rows) ==
    [i \in 1..Len(rows) |-> [row |-> rows[i], first |-> TRUE]]

\* DataFrame.drop_duplicates(subset=["away_score", "home_score"]): the first
\* row of every score pair is kept.
DropDuplicates(rows) ==
    SelectSeq(
        [i \in 1..Len(rows) |->
            [row |-> rows[i],
             first |-> \A j \in 1..(i - 1) :
                          \/ rows[j].away_score # rows[i].away_score
                          \/ rows[j].home_score # rows[i].home_score]],
        LAMBDA e : e.first)

\* .drop_duplicates(...).query("away_score > 0")
\*  .eval("away_score == home_score").sum()
Ties(rows) ==
    LET scored == SelectSeq(DropDuplicates(rows),
                            LAMBDA e : e.row.away_score > 0)
    IN  Len(SelectSeq(scored,
                      LAMBDA e : e.row.away_score = e.row.home_score))

\* play_by_play["away_score"] - play_by_play["home_score"]
Lead(rows) ==
    [i \in 1..Len(rows) |-> rows[i].away_score - rows[i].home_score]

\* The lead series with its zeros, as without replace(0, np.nan).dropna().
KeepZeros(lead) == lead

\* .replace(0, np.nan).dropna()
DropZeros(lead) == SelectSeq(lead, LAMBDA l : l # 0)

\* Series.diff() of a boolean series: NaN first, then b[i] xor b[i-1].
BoolDiff(bs) ==
    [i \in 1..Len(bs) |->
        IF i = 1 THEN NaN ELSE Num(IF bs[i] # bs[i - 1] THEN 1 ELSE 0)]

\* (play_by_play["lead"].replace(0, np.nan).dropna() < 0).diff().sum()
Negative(kept) == [i \in 1..Len(kept) |-> kept[i] < 0]

LeadChanges(lead) == Sum(BoolDiff(Negative(DropZeros(lead))))

\* play_by_play["lead"].abs().max()
LargestLead(lead) ==
    CellMax([i \in 1..Len(lead) |-> Num(Abs(lead[i]))])

\* .cumsum().fillna(0) / -60: seconds become minutes and the sign turns.  The
\* result is held in hundredths of a second, 6000 to the minute.
ToMinutes(xs) == [i \in 1..Len(xs) |-> Num(-xs[i].v)]

TicksPerMinute == 60 * 100

\* np.minimum(remaining.diff(), 0).cumsum().fillna(0) / -60
ElapsedTime(remaining) ==
    ToMinutes(FillNa0(CumSum(Minimum0(Diff(remaining)))))

\* play_by_play["time"].diff().fillna(0)
Duration(time) == FillNa0(Diff(time))

\* The durations of the rows where the visitors are ahead or level.
AwayLeadOrLevel(rows) ==
    Sum(Column(SelectSeq(rows, LAMBDA r : r.away_score >= r.home_score),
               "duration"))

\* play_by_play.query("away_score > home_score")["duration"].sum()
AwayLead(rows) ==
    Sum(Column(SelectSeq(rows, LAMBDA r : r.away_score > r.home_score),
               "duration"))

\* play_by_play.query("away_score < home_score")["duration"].sum()
HomeLead(rows) ==
    Sum(Column(SelectSeq(rows, LAMBDA r : r.away_score < r.home_score),
               "duration"))

\* pd.to_timedelta(minutes, unit="min").components: minutes and seconds.
Components(ticks) ==
    [minutes |-> (ticks \div TicksPerMinute) % 60,
     seconds |-> (ticks \div 100) % 60]

\* The period markers drawn on the score plot, in minutes.
PauseMarks == <<12, 24, 36, 48, 53, 58, 63, 68, 73, 78, 83>>

\* [pause for pause in [...] if pause < last], last the greatest time
PausesBefore(last) ==
    SelectSeq(PauseMarks,
              LAMBDA pause : ~last.nan /\ pause * TicksPerMinute < last.v)

\* [pause for pause in [...] if pause < play_by_play["time"].max()]
Pauses(time) == PausesBefore(CellMax(time))

\* play_by_play["lead"] = away_score - home_score
WithLead(rows) == SetColumn(rows, "lead", Lead(rows))

\* play_by_play["remaining_seconds_in_period"] = time_remaining.apply(...)
WithRemaining(rows) ==
    SetColumn(rows, "remaining_seconds_in_period",
              [i \in 1..Len(rows) |->
                  Num(RemainingSeconds(rows[i].time_remaining))])

\* play_by_play["time"] = np.minimum(remaining.diff(), 0).cumsum()...
WithTime(rows) ==
    SetColumn(rows, "time",
              ElapsedTime(Column(rows, "remaining_seconds_in_period")))

\* play_by_play["duration"] = play_by_play["time"].diff().fillna(0)
WithDuration(rows) ==
    SetColumn(rows, "duration", Duration(Column(rows, "time")))

\* The frame after the lead, clock, time and duration columns are added.
WithColumns(rows) == WithDuration(WithTime(WithRemaining(WithLead(rows))))

\* -------------------------------------------------------------- shot chart
\* a / b to the nearest hundredth, b > 0.
RoundDiv(a, b) == (2 * a + b) \div (2 * b)

\* The integer square root of n >= 0, by bisection of lo..hi.
RECURSIVE Bisect(_, _, _)
Bisect(n, lo, hi) ==
    IF lo >= hi THEN lo
    ELSE LET mid == (lo + hi + 1) \div 2
         IN  IF mid * mid <= n THEN Bisect(n, mid, hi)
             ELSE Bisect(n, lo, mid - 1)

\* np.sqrt of a value held in hundredths squared, in hundredths.
Sqrt(n) == Bisect(n, 0, 46340)

\* bool(value) of a float: only 0.0 is false, NaN is true.
Truthy(c) == c.nan \/ c.v # 0

\* Comparisons of a query: a NaN cell satisfies none.
Less(c, n) == ~c.nan /\ c.v < n

Greater(c, n) == ~c.nan /\ c.v > n

\* shots[a].append(shots[h]) with the TEAM column set, and
\* shots["x"].apply(lambda ft: float(ft[:-3])), the same for y.
ParseShots(chart, away_abbr, home_abbr) ==
    LET Parse(team, r) ==
            [x |-> Num(Float(SubSeq(r.x, 1, Len(r.x) - 3))),
             y |-> Num(Float(SubSeq(r.y, 1, Len(r.y) - 3))),
             VALUE |-> r.VALUE, MAKE_MISS |-> r.MAKE_MISS, TEAM |-> team]
    IN  [i \in 1..Len(chart.away) |-> Parse(away_abbr, chart.away[i])]
        \o [i \in 1..Len(chart.home) |-> Parse(home_abbr, chart.home[i])]

\* shots.query("VALUE == 3 and y < 14 and x < 25")["x"].max()
LeftCorner(shots) ==
    CellMax(Column(SelectSeq(shots,
        LAMBDA r : r.VALUE = 3 /\ Less(r.y, 1400) /\ Less(r.x, 2500)), "x"))

\* shots.query("VALUE == 3 and y < 14 and x > 25")["x"].min()
RightCorner(shots) ==
    CellMin(Column(SelectSeq(shots,
        LAMBDA r : r.VALUE = 3 /\ Less(r.y, 1400) /\ Greater(r.x, 2500)), "x"))

\* if left_corner and right_corner:
RescaleGuard(left_corner, right_corner) ==
    Truthy(left_corner) /\ Truthy(right_corner)

\* x = x - left_corner; x = x / (right_corner - left_corner) * 44; x = x + 3
RescaleX(x, left_corner, right_corner) ==
    IF x.nan \/ left_corner.nan \/ right_corner.nan
        \/ right_corner.v = left_corner.v
    THEN NaN
    ELSE Num(RoundDiv((x.v - left_corner.v) * 4400,
                      right_corner.v - left_corner.v) + 300)

\* np.sqrt((x - 25) ** 2 + (y - 5.25) ** 2)
HoopDistance(x, y) ==
    IF x.nan \/ y.nan THEN NaN
    ELSE Num(Sqrt((x.v - 2500) * (x.v - 2500) + (y.v - 525) * (y.v - 525)))

\* shots.query("VALUE == 3 and y > 14")
BehindArk(shots) ==
    SelectSeq(shots, LAMBDA r : r.VALUE = 3 /\ Greater(r.y, 1400))

\* np.sqrt(...).min() over the threes from behind the arc
HoopDistances(behind_ark) ==
    [i \in 1..Len(behind_ark) |->
        HoopDistance(behind_ark[i].x, behind_ark[i].y)]

MinDist(shots) == CellMin(HoopDistances(BehindArk(shots)))

\* y = y / min_dist * 23.75
RescaleY(y, min_dist) ==
    IF y.nan \/ min_dist.nan \/ min_dist.v = 0 THEN NaN
    ELSE Num(RoundDiv(y.v * 2375, min_dist.v))

\* shots["x"] = ... with the two corner values
ScaleX(shots, left_corner, right_corner) ==
    SetColumn(shots, "x",
              [i \in 1..Len(shots) |->
                  RescaleX(shots[i].x, left_corner, right_corner)])

\* shots["y"] = shots["y"] / min_dist * 23.75
ScaleY(shots, min_dist) ==
    SetColumn(shots, "y",
              [i \in 1..Len(shots) |-> RescaleY(shots[i].y, min_dist)])

\* Lines 204 to 209: the shift and scale of x.
CornerRescale(shots, left_corner, right_corner) ==
    IF RescaleGuard(left_corner, right_corner)
    THEN ScaleX(shots, left_corner, right_corner)
    ELSE shots

\* Lines 210 to 214: the scale of y.
ArkRescale(shots) == ScaleY(shots, MinDist(shots))

\* The shift and scale of the coordinates, lines 204 to 214.
NormalizeShots(parsed) ==
    ArkRescale(CornerRescale(parsed, LeftCorner(parsed), RightCorner(parsed)))

\* -------------------------------------------------------------- box scores
\* Series.str.contains(sub)
Contains(s, sub) ==
    \E i \in 1..(Len(s) - Len(sub) + 1) :
        SubSeq(s, i, i + Len(sub) - 1) = sub

\* The categories of the leaderboard.
Stats == <<"PTS", "TRB", "AST", "STL", "BLK">>

\* pd.concat(box_scores.values()).query("PLAYER != 'Team Totals'") and the
\* rows whose MP holds neither "Not" nor "Suspended".
Played(box_scores) ==
    SelectSeq(
        SelectSeq(box_scores[1] \o box_scores[2],
                  LAMBDA r : r.PLAYER # "Team Totals"),
        LAMBDA r : /\ ~Contains(r.MP, <<"N", "o", "t">>)
                   /\ ~Contains(r.MP,
                         <<"S", "u", "s", "p", "e", "n", "d", "e", "d">>))

\* The order of an ascending sort.
Ascending(a, b) == a <= b

\* The order of the values of a sorted frame: descending.
InOrder(a, b) == a >= b

\* The orders in which a sort can put the rows of the places in left: a
\* row comes first when no other row has to come before it.
RECURSIVE Orders(_, _, _)
Orders(rows, stat, left) ==
    IF left = {} THEN {<<>>}
    ELSE UNION {{<<rows[i]>> \o rest : rest \in Orders(rows, stat, left \ {i})} :
                   i \in {h \in left :
                             \A j \in left : InOrder(rows[h][stat], rows[j][stat])}}

\* box_scores.sort_values(stat, ascending=False): the sort kind is the
\* default, quicksort, which is not stable, so that rows of equal value come
\* out in any order.
SortValues(rows, stat) == Orders(rows, stat, 1..Len(rows))

\* .iloc[:3] and the player's name and value of every row.
TopThree(sorted, stat) ==
    [i \in 1..Min2(3, Len(sorted)) |->
        [PLAYER |-> sorted[i].PLAYER, value |-> sorted[i][stat]]]

\* The lines the sort of one category can give.
Leaderboards(rows, stat) ==
    {TopThree(sorted, stat) : sorted \in SortValues(rows, stat)}

\* ----------------------------------------------------------- injury report
\* injury_report[(DATE <= date) & (TEAM == team)]
TeamInjuries(report, team, date) ==
    SelectSeq(report, LAMBDA r : r.DATE <= date /\ r.TEAM = team)

\* len(team + ":\n" + "\n".join(lines)): the abbreviation has three
\* characters.
InjuryChars(team_injuries) ==
    3 + 2 + Sum([i \in 1..Len(team_injuries) |-> Num(team_injuries[i].chars)])
      + (Len(team_injuries) - 1)

\* The loop over the two teams, lines 303 to 326.
InjuryStati(report, away_abbr, home_abbr, date) ==
    LET Status(team) ==
            LET team_injuries == TeamInjuries(report, team, date)
            IN  IF Len(team_injuries) > 0
                THEN <<[teams |-> <<team>>,
                        chars |-> InjuryChars(team_injuries)]>>
                ELSE <<>>
    IN  Status(away_abbr) \o Status(home_abbr)

\* if len(injury_stati) == 2 and len(s[0]) + len(s[1]) <= 278: one status
MergeStati(injury_stati) ==
    IF Len(injury_stati) = 2
        /\ injury_stati[1].chars + injury_stati[2].chars <= 278
    THEN <<[teams |-> injury_stati[1].teams \o injury_stati[2].teams,
            chars |-> injury_stati[1].chars + 1 + injury_stati[2].chars]>>
    ELSE injury_stati

\* ------------------------------------------------------------------ thread
\* status[:279] of a text of the given length.
Truncate(chars) == Min2(chars, 279)

\* API.update_status(status[:279], media_ids, in_reply_to_status_id): the
\* thread with the post added; a post's id is its place in the thread.
UpdateStatus(posts, kind, text, media, in_reply_to) ==
    Append(posts, [id |-> Len(posts) + 1, kind |-> kind, text |-> text,
                   media |-> media, in_reply_to |-> in_reply_to])

\* ------------------------------------------------------------------ inputs
\* The game of the schedule that tweet_game is called with.
game ==
    [DATE |-> 2, VISITOR |-> "Boston Celtics", HOME |-> "Los Angeles Lakers"]

away_abbr == "BOS"

home_abbr == "LAL"

\* Clock strings of the play-by-play.
Clock1200 == <<"1", "2", ":", "0", "0", ".", "0">>

Clock1145 == <<"1", "1", ":", "4", "5", ".", "0">>

Clock0630 == <<"6", ":", "3", "0", ".", "0">>

Clock0500 == <<"5", ":", "0", "0", ".", "0">>

Clock0445 == <<"4", ":", "4", "5", ".", "0">>

Clock0002 == <<"0", ":", "0", "2", ".", "0">>

Clock0000 == <<"0", ":", "0", "0", ".", "0">>

Event(quarter, clock, away, home) ==
    [quarter |-> quarter, time_remaining |-> clock,
     away_score |-> away, home_score |-> home]

\* The events [(0,0),(2,0),(2,2),(2,2),(4,2)].
TieExample ==
    <<Event(1, Clock1200, 0, 0), Event(1, Clock1145, 2, 0),
      Event(1, Clock0630, 2, 2), Event(1, Clock0630, 2, 2),
      Event(1, Clock0000, 4, 2)>>

\* A log whose lead series is [0,3,-1,-1,2,-4].
LeadExample ==
    <<Event(1, Clock1200, 0, 0), Event(1, Clock1145, 3, 0),
      Event(1, Clock0630, 3, 4), Event(1, Clock0630, 3, 4),
      Event(1, Clock0002, 6, 4), Event(1, Clock0000, 6, 10)>>

\* A log of two periods with a repeated clock value, a period rollover and
\* time spent level, with the visitors ahead and with the home team ahead.
ClockExample ==
    <<Event(1, Clock1200, 0, 0), Event(1, Clock1145, 0, 0),
      Event(1, Clock0630, 2, 0), Event(1, Clock0630, 2, 3),
      Event(1, Clock0000, 2, 3), Event(2, Clock1200, 2, 3),
      Event(2, Clock1145, 4, 3)>>

\* What one event of a drawn log adds: a clock value and the points scored.
EventChoices ==
    {Clock0630, Clock0000} \X {<<0, 0>>, <<2, 0>>, <<0, 2>>, <<0, 3>>}

\* The log of a sequence of choices: the scores accumulate, and the period
\* advances when the clock goes up.
NextEvent(prev, c) ==
    Event(prev.quarter
             + (IF RemainingSeconds(c[1]) > RemainingSeconds(prev.time_remaining)
                THEN 1 ELSE 0),
          c[1], prev.away_score + c[2][1], prev.home_score + c[2][2])

RECURSIVE Extend(_, _)
Extend(log, cs) ==
    IF cs = <<>> THEN log
    ELSE Extend(Append(log, NextEvent(log[Len(log)], Head(cs))), Tail(cs))

LogOf(cs) ==
    Extend(<<Event(1, cs[1][1], cs[1][2][1], cs[1][2][2])>>, Tail(cs))

GeneralLogs ==
    {LogOf(cs) : cs \in UNION {[1..n -> EventChoices] : n \in 1..MaxEvents}}

\* The first and the last recorded clock of a period: the first is the
\* period's length or 15 seconds less, the last is zero or 2 seconds.
PeriodChoices(q) ==
    (IF q <= 4 THEN {Clock1200, Clock1145} ELSE {Clock0500, Clock0445})
        \X {Clock0000, Clock0002}

\* A log of n periods with two events each: 3 points for the visitors at the
\* first, 3 for the home team at the last, 2 at the last of the game.
FullLog(n, cs) ==
    [i \in 1..(2 * n) |->
        LET q == (i + 1) \div 2
        IN  IF i % 2 = 1
            THEN Event(q, cs[q][1], 3 * q, 3 * (q - 1))
            ELSE Event(q, cs[q][2], 3 * q,
                       IF q = n THEN 3 * q - 1 ELSE 3 * q)]

\* The choices of a game of n periods: every period of the regulation is
\* drawn; in a game with overtime the regulation is recorded in full and the
\* overtime is drawn.
FullChoices(n) ==
    IF n = 4 THEN {c \in [1..4 -> PeriodChoices(1)] : TRUE}
    ELSE {[q \in 1..n |-> IF q <= 4 THEN <<Clock1200, Clock0000>> ELSE c] :
             c \in PeriodChoices(n)}

\* Games of four quarters, and of four quarters and one overtime.
FullLogs == UNION {{FullLog(n, cs) : cs \in FullChoices(n)} : n \in {4, 5}}

\* Shots as the shot chart reports them: coordinates in feet, as text.
Feet(digits) == digits \o <<" ", "f", "t">>

Shot(x, y, value, make_miss) ==
    [x |-> Feet(x), y |-> Feet(y), VALUE |-> value, MAKE_MISS |-> make_miss]

LeftCornerThree == Shot(<<"3", ".", "0">>, <<"5", ".", "0">>, 3, "MAKE")

WideLeftCornerThree == Shot(<<"2", ".", "0">>, <<"5", ".", "0">>, 3, "MISS")

RightCornerThree == Shot(<<"4", "7", ".", "0">>, <<"5", ".", "0">>, 3, "MAKE")

CenterArkThree ==
    Shot(<<"2", "5", ".", "0">>, <<"3", "0", ".", "0">>, 3, "MISS")

WingArkThree ==
    Shot(<<"3", "2", ".", "0">>, <<"2", "9", ".", "2", "5">>, 3, "MAKE")

LayUp == Shot(<<"2", "5", ".", "0">>, <<"1", "0", ".", "0">>, 2, "MAKE")

ShotChoices ==
    {LeftCornerThree, WideLeftCornerThree, RightCornerThree, CenterArkThree,
     WingArkThree, LayUp}

\* The chart of a sequence of shots: the first half is the visitors'.
ChartOf(ss) ==
    [away |-> SubSeq(ss, 1, (Len(ss) + 1) \div 2),
     home |-> SubSeq(ss, (Len(ss) + 1) \div 2 + 1, Len(ss))]

ShotCharts ==
    {ChartOf(ss) : ss \in UNION {[1..n -> ShotChoices] : n \in 1..MaxShots}}

DefaultChart ==
    ChartOf(<<LeftCornerThree, RightCornerThree, CenterArkThree>>)

\* The MP column: minutes played, or why the player did not play.
Minutes == <<"2", "4", ":", "1", "0">>

DidNotPlay == <<"D", "i", "d", " ", "N", "o", "t", " ", "P", "l", "a", "y">>

PlayerSuspended ==
    <<"P", "l", "a", "y", "e", "r", " ", "S", "u", "s", "p", "e", "n", "d",
      "e", "d">>

PlayerNames == <<"Ann Ace", "Bo Bell", "Cy Cole", "Di Dunn", "Ed Eads", "Flo Fox">>

\* What is drawn for a player: the MP cell and the points.
PlayerChoices ==
    ({Minutes} \X {1, 2}) \cup ({DidNotPlay, PlayerSuspended} \X {0})

\* The row of player i: the points are drawn, so that players tie; the other
\* categories differ from player to player.
PlayerRow(i, c) ==
    LET played == c[1] = Minutes
    IN  [PLAYER |-> PlayerNames[i], MP |-> c[1], PTS |-> c[2],
         TRB |-> IF played THEN i ELSE 0,
         AST |-> IF played THEN 10 - i ELSE 0,
         STL |-> IF played THEN 2 * i ELSE 0,
         BLK |-> IF played THEN 20 - i ELSE 0]

TeamTotals ==
    [PLAYER |-> "Team Totals", MP |-> <<"2", "4", "0">>, PTS |-> 100,
     TRB |-> 40, AST |-> 20, STL |-> 8, BLK |-> 5]

\* The box scores of a sequence of choices: the first two players are the
\* visitors'; each frame ends with the team's totals.
BoxOf(cs) ==
    LET rows == [i \in 1..Len(cs) |-> PlayerRow(i, cs[i])]
    IN  <<Append(SubSeq(rows, 1, 2), TeamTotals),
          Append(SubSeq(rows, 3, Len(rows)), TeamTotals)>>

BoxScores == {BoxOf(cs) : cs \in [1..MaxPlayers -> PlayerChoices]}

DefaultBox == BoxOf(<<<<Minutes, 13>>, <<Minutes, 12>>, <<Minutes, 11>>>>)

\* A row of the injury report: the team, the day and the length of its line.
Injury(team, date, chars) == [TEAM |-> team, DATE |-> date, chars |-> chars]

InjuryChoices ==
    {Injury(team, game.DATE - 1, chars) :
        team \in {away_abbr, home_abbr, "NYK"}, chars \in {40, 200}}
    \cup {Injury(away_abbr, game.DATE + 1, 40)}

InjuryReports == UNION {[1..n -> InjuryChoices] : n \in 0..MaxInjuries}

DefaultInjuries == <<Injury(away_abbr, game.DATE - 1, 40)>>

\* ------------------------------------------------------------------- state
VARIABLES
    upstream,        \* what the search, get_pbp, get_box_scores and
                     \* get_shot_chart answer for the game
    injury_report,   \* the injury report tweet_game is called with
    pc,              \* the place in tweet_game
    play_by_play,    \* the play-by-play frame with its derived columns
    game_status,     \* the statistics of the header
    pauses,          \* the period markers of the score plot
    box_scores,      \* the frames of the two teams; <<>> is None
    teams_status,    \* the text of the team statistics
    shots,           \* the shot frame
    players_status,  \* the leaderboard of every category
    injury_stati,    \* the injury texts
    thread,          \* the posts made, in order
    api_reply        \* the id of the last post; 0 before the first

vars ==
    <<upstream, injury_report, pc, play_by_play, game_status, pauses,
      box_scores, teams_status, shots, players_status, injury_stati, thread,
      api_reply>>

Upstream(search, pbp, box_error, box, chart) ==
    [search |-> search, pbp |-> pbp, box_error |-> box_error, box |-> box,
     chart |-> chart]

\* The games drawn: one input varies at a time around a default game.
\* Every family holds the games of Branches, so that every branch of
\* tweet_game is taken in it.
Branches ==
    {<<Upstream(search, TieExample, box_error, DefaultBox, DefaultChart),
       report>> :
        search \in BOOLEAN, box_error \in BOOLEAN,
        report \in {<<>>, DefaultInjuries}}

LogInputs ==
    Branches \cup
    {<<Upstream(FALSE, pbp, FALSE, DefaultBox, DefaultChart), DefaultInjuries>> :
        pbp \in GeneralLogs \cup FullLogs
                  \cup {TieExample, LeadExample, ClockExample}}

ShotInputs ==
    Branches \cup
    {<<Upstream(FALSE, TieExample, FALSE, DefaultBox, chart), DefaultInjuries>> :
        chart \in ShotCharts}

BoxInputs ==
    Branches \cup
    {<<Upstream(FALSE, TieExample, FALSE, box, DefaultChart), DefaultInjuries>> :
        box \in BoxScores}

ThreadInputs ==
    Branches \cup
    {<<Upstream(search, TieExample, box_error, DefaultBox, DefaultChart),
       report>> :
        search \in BOOLEAN, box_error \in BOOLEAN, report \in InjuryReports}

\* The state when tweet_game is entered with one of the inputs.
Entered(inputs) ==
    /\ \E input \in inputs :
        /\ upstream = input[1]
        /\ injury_report = input[2]
    /\ pc = "start"
    /\ play_by_play = <<>>
    /\ game_status = <<>>
    /\ pauses = <<>>
    /\ box_scores = <<>>
    /\ teams_status = ""
    /\ shots = <<>>
    /\ players_status = <<>>
    /\ injury_stati = <<>>
    /\ thread = <<>>
    /\ api_reply = 0

Init == Entered(ThreadInputs)

InitLog == Entered(LogInputs)

InitShots == Entered(ShotInputs)

InitBox == Entered(BoxInputs)

\* ----------------------------------------------------------------- actions
\* Lines 69 to 73: the search finds the header, nothing is posted.
AlreadyTweeted ==
    /\ pc = "start"
    /\ upstream.search
    /\ pc' = "done"
    /\ UNCHANGED <<upstream, injury_report, play_by_play, game_status, pauses,
                   box_scores, teams_status, shots, players_status,
                   injury_stati, thread, api_reply>>

\* Lines 75 to 162: the statistics of the play-by-play, the score plot and
\* the first post.
GameStats ==
    /\ pc = "start"
    /\ ~upstream.search
    /\ LET frame     == WithColumns(upstream.pbp)
           away_lead == AwayLead(frame)
           home_lead == HomeLead(frame)
           status    == [ties |-> Ties(upstream.pbp),
                         lead_changes |-> LeadChanges(Lead(upstream.pbp)),
                         largest_lead |-> LargestLead(Lead(upstream.pbp)),
                         away_lead |-> away_lead,
                         home_lead |-> home_lead,
                         away_led |-> Components(away_lead),
                         home_led |-> Components(home_lead)]
       IN  /\ play_by_play' = frame
           /\ game_status' = status
           /\ pauses' = Pauses(Column(frame, "time"))
           /\ thread' = UpdateStatus(thread, "game_status", status,
                                     "scores.png", 0)
           /\ api_reply' = Len(thread')
    /\ pc' = "team_stats"
    /\ UNCHANGED <<upstream, injury_report, box_scores, teams_status, shots,
                   players_status, injury_stati>>

\* Lines 165 to 189: the box scores are there.
TeamStats ==
    /\ pc = "team_stats"
    /\ ~upstream.box_error
    /\ box_scores' = upstream.box
    /\ teams_status' = "team splits"
    /\ pc' = "shot_chart"
    /\ UNCHANGED <<upstream, injury_report, play_by_play, game_status, pauses,
                   shots, players_status, injury_stati, thread, api_reply>>

\* The ValueError of get_box_scores left uncaught: tweet_game ends there.
BoxScoreErrorAborts ==
    /\ pc = "team_stats"
    /\ upstream.box_error
    /\ pc' = "done"
    /\ UNCHANGED <<upstream, injury_report, play_by_play, game_status, pauses,
                   box_scores, teams_status, shots, players_status,
                   injury_stati, thread, api_reply>>

\* Lines 190 to 192: get_box_scores raises ValueError.
NoBoxScores ==
    /\ pc = "team_stats"
    /\ upstream.box_error
    /\ box_scores' = <<>>
    /\ teams_status' = "Sorry, no box scores for this game"
    /\ pc' = "shot_chart"
    /\ UNCHANGED <<upstream, injury_report, play_by_play, game_status, pauses,
                   shots, players_status, injury_stati, thread, api_reply>>

\* Lines 194 to 270: the shot chart, posted with the team statistics.
ShotChart ==
    /\ pc = "shot_chart"
    /\ shots' = NormalizeShots(ParseShots(upstream.chart, away_abbr, home_abbr))
    /\ thread' = UpdateStatus(thread, "teams_status", teams_status,
                              "shots.png", api_reply)
    /\ api_reply' = Len(thread')
    /\ pc' = "best_stats"
    /\ UNCHANGED <<upstream, injury_report, play_by_play, game_status, pauses,
                   box_scores, teams_status, players_status, injury_stati>>

\* Lines 273 to 300: the leaderboards, when there are box scores.
BestIndividual ==
    /\ pc = "best_stats"
    /\ box_scores # <<>>
    /\ LET rows == Played(box_scores)
       IN  \E pts \in Leaderboards(rows, Stats[1]),
              trb \in Leaderboards(rows, Stats[2]),
              ast \in Leaderboards(rows, Stats[3]),
              stl \in Leaderboards(rows, Stats[4]),
              blk \in Leaderboards(rows, Stats[5]) :
               players_status' = <<pts, trb, ast, stl, blk>>
    /\ thread' = UpdateStatus(thread, "players_status", players_status', "",
                              api_reply)
    /\ api_reply' = Len(thread')
    /\ pc' = "injury_report"
    /\ UNCHANGED <<upstream, injury_report, play_by_play, game_status, pauses,
                   box_scores, teams_status, shots, injury_stati>>

\* Line 273: without box scores there is no leaderboard.
NoIndividual ==
    /\ pc = "best_stats"
    /\ box_scores = <<>>
    /\ pc' = "injury_report"
    /\ UNCHANGED <<upstream, injury_report, play_by_play, game_status, pauses,
                   box_scores, teams_status, shots, players_status,
                   injury_stati, thread, api_reply>>

\* The posts of the loop of lines 333 to 336, each a reply to the one before.
RECURSIVE PostStati(_, _)
PostStati(posts, stati) ==
    IF stati = <<>> THEN posts
    ELSE PostStati(
             UpdateStatus(posts, "injury_status",
                          [teams |-> stati[1].teams,
                           chars |-> Truncate(stati[1].chars)],
                          "", Len(posts)),
             Tail(stati))

\* Lines 302 to 336: the injury texts; without any, tweet_game returns.
InjuryReport ==
    /\ pc = "injury_report"
    /\ LET stati == InjuryStati(injury_report, away_abbr, home_abbr, game.DATE)
       IN  IF stati = <<>>
           THEN /\ injury_stati' = stati
                /\ pc' = "done"
                /\ UNCHANGED <<thread, api_reply>>
           ELSE /\ injury_stati' = MergeStati(stati)
                /\ thread' = PostStati(thread, injury_stati')
                /\ api_reply' = Len(thread')
                /\ pc' = "link"
    /\ UNCHANGED <<upstream, injury_report, play_by_play, game_status, pauses,
                   box_scores, teams_status, shots, players_status>>

\* Lines 338 to 347: the link to the source.
LinkToSource ==
    /\ pc = "link"
    /\ thread' = UpdateStatus(thread, "link_to_source", game.HOME, "",
                              api_reply)
    /\ api_reply' = Len(thread')
    /\ pc' = "done"
    /\ UNCHANGED <<upstream, injury_report, play_by_play, game_status, pauses,
                   box_scores, teams_status, shots, players_status,
                   injury_stati>>

Next ==
    \/ AlreadyTweeted
    \/ GameStats
    \/ TeamStats
    \/ NoBoxScores
    \/ ShotChart
    \/ BestIndividual
    \/ NoIndividual
    \/ InjuryReport
    \/ LinkToSource

\* The thread of posts, over the injury reports.
Spec == Init /\ [][Next]_vars

\* The statistics of the play-by-play, over the game logs.
SpecLog == InitLog /\ [][Next]_vars

\* The shot coordinates, over the shot charts.
SpecShots == InitShots /\ [][Next]_vars

\* The leaderboards, over the box scores.
SpecBox == InitBox /\ [][Next]_vars

\* ------------------------------------------------------------------ claims
\* The header is posted: the statistics of the play-by-play are computed.
StatsDone == thread # <<>>

\* The lead series of the log the upstream gave.
RawLead ==
    [i \in 1..Len(upstream.pbp) |->
        upstream.pbp[i].away_score - upstream.pbp[i].home_score]

\* The sign flips between consecutive non-zero entries of a lead series.
SignFlips(lead) ==
    Cardinality({i \in 1..Len(lead) :
        /\ lead[i] # 0
        /\ \E j \in 1..(i - 1) :
            /\ lead[j] # 0
            /\ \A k \in (j + 1)..(i - 1) : lead[k] = 0
            /\ (lead[j] < 0) # (lead[i] < 0)})

ExampleLead == <<0, 3, -1, -1, 2, -4>>

\* C1, as amended: the reported lead-change count is the number of sign
\* flips between consecutive non-zero entries of the lead series (zeros are
\* dropped, not carried forward); for the lead series [0,3,-1,-1,2,-4] the
\* count is 3: 3 to -1, -1 to 2 and 2 to -4.
C1_LeadChangesAreSignFlips ==
    StatsDone =>
        /\ game_status.lead_changes = SignFlips(RawLead)
        /\ RawLead = ExampleLead => game_status.lead_changes = 3

\* C1, witness: the header of the log with the lead series [0,3,-1,-1,2,-4]
\* is posted, and a zero was dropped from the series.
C1_Witness ==
    /\ StatsDone
    /\ RawLead = ExampleLead
    /\ game_status.lead_changes = 3

\* C1, as stated: the count is the number of sign flips, and for the lead
\* series [0,3,-1,-1,2,-4] it is 2.
C1_Original ==
    StatsDone =>
        /\ game_status.lead_changes = SignFlips(RawLead)
        /\ RawLead = ExampleLead => game_status.lead_changes = 2

\* The score pairs of a log, in order.
ScorePairs(rows) ==
    [i \in 1..Len(rows) |-> <<rows[i].away_score, rows[i].home_score>>]

\* The level scores above zero that occur in a log.
LevelScores(rows) ==
    {rows[i].away_score : i \in {j \in 1..Len(rows) :
        rows[j].away_score = rows[j].home_score /\ rows[j].away_score > 0}}

\* C2: the reported tie count is the number of distinct score pairs (a, a)
\* with a > 0 of the log: a repeated pair counts once, 0-0 never; the events
\* [(0,0),(2,0),(2,2),(2,2),(4,2)] give 1.
C2_TiesAreDistinctLevelScores ==
    StatsDone =>
        /\ game_status.ties = Cardinality(LevelScores(upstream.pbp))
        /\ ScorePairs(upstream.pbp)
              = <<<<0, 0>>, <<2, 0>>, <<2, 2>>, <<2, 2>>, <<4, 2>>>>
           => game_status.ties = 1

\* C2, witness: the header of the log [(0,0),(2,0),(2,2),(2,2),(4,2)], which
\* repeats the pair (2,2) and opens with 0-0, is posted with one tie.
C2_Witness ==
    /\ StatsDone
    /\ ScorePairs(upstream.pbp)
          = <<<<0, 0>>, <<2, 0>>, <<2, 2>>, <<2, 2>>, <<4, 2>>>>
    /\ game_status.ties = 1

\* The remaining clock of event i of the log the upstream gave.
Remaining(i) == RemainingSeconds(upstream.pbp[i].time_remaining)

\* The elapsed time of row i of the frame.
Elapsed(i) == play_by_play[i].time

\* C3: the elapsed-time axis has one entry for every row of the log, starts
\* at 0, never decreases, and each step is max(remaining[i-1] -
\* remaining[i], 0): a decrease of the clock advances time by that amount,
\* an increase (a period rollover) by nothing.
C3_ElapsedTimeSteps ==
    StatsDone =>
        /\ Len(play_by_play) = Len(upstream.pbp)
        /\ Elapsed(1) = Num(0)
        /\ \A i \in 2..Len(play_by_play) :
            /\ ~Elapsed(i).nan
            /\ Elapsed(i).v >= Elapsed(i - 1).v
            /\ Elapsed(i).v - Elapsed(i - 1).v
                  = Max2(Remaining(i - 1) - Remaining(i), 0)

\* C3, witness: the axis of a log with a repeated clock value, a decrease
\* and an upward reset of the clock.
C3_Witness ==
    /\ StatsDone
    /\ \E i \in 2..Len(upstream.pbp) : Remaining(i) = Remaining(i - 1)
    /\ \E i \in 2..Len(upstream.pbp) : Remaining(i) < Remaining(i - 1)
    /\ \E i \in 2..Len(upstream.pbp) : Remaining(i) > Remaining(i - 1)

\* The duration of step i: elapsed[i] - elapsed[i-1], 0 for the first event.
StepDuration(i) == IF i = 1 THEN 0 ELSE Elapsed(i).v - Elapsed(i - 1).v

\* The sum of the step durations of a set of rows.
RECURSIVE DurationOf(_)
DurationOf(rows) ==
    IF rows = {} THEN 0
    ELSE LET i == CHOOSE j \in rows : TRUE
         IN  StepDuration(i) + DurationOf(rows \ {i})

RowsWhere(side) ==
    {i \in 1..Len(play_by_play) :
        CASE side = "away" ->
                play_by_play[i].away_score > play_by_play[i].home_score
          [] side = "home" ->
                play_by_play[i].away_score < play_by_play[i].home_score
          [] OTHER ->
                play_by_play[i].away_score = play_by_play[i].home_score}

\* C4: with the duration of a step given to the side ahead at the step's
\* event, or to neither when the score is level there, the time the
\* visitors led, the time the home team led and the level time add up to
\* the elapsed time of the last event.
C4_LeadDurationsAddUp ==
    StatsDone =>
        /\ game_status.away_lead = DurationOf(RowsWhere("away"))
        /\ game_status.home_lead = DurationOf(RowsWhere("home"))
        /\ game_status.away_lead + game_status.home_lead
              + DurationOf(RowsWhere("level"))
              = Elapsed(Len(play_by_play)).v

\* C4, witness: a game in which the visitors led, the home team led and
\* the score was level, each for some time.
C4_Witness ==
    /\ StatsDone
    /\ game_status.away_lead > 0
    /\ game_status.home_lead > 0
    /\ DurationOf(RowsWhere("level")) > 0

\* The last period of the log the upstream gave.
LastPeriod == upstream.pbp[Len(upstream.pbp)].quarter

\* A complete game log: at least the four quarters, every period recorded.
CompleteLog ==
    /\ LastPeriod >= 4
    /\ \A q \in 1..LastPeriod :
          \E i \in 1..Len(upstream.pbp) : upstream.pbp[i].quarter = q

\* C10, as stated: the elapsed time of the last event of a complete game log
\* is the sum of the lengths of the periods played, the marker 48 after four
\* quarters and 53 after one overtime, whatever the first and the last
\* recorded clock of a period are.
C10_FinalTimeIsGameLength ==
    (StatsDone /\ CompleteLog) =>
        Elapsed(Len(play_by_play)).v = PauseMarks[LastPeriod] * TicksPerMinute

\* The shot frame is normalized: the shot chart is posted.
ShotsDone == pc \in {"best_stats", "injury_report", "link", "done"} /\ Len(thread) >= 2

\* The shots as read from the chart, before the shift and scale.
RawShots == ParseShots(upstream.chart, away_abbr, home_abbr)

\* A three is attempted from the left, from the right corner.
HasLeftCorner ==
    \E i \in 1..Len(RawShots) :
        /\ RawShots[i].VALUE = 3
        /\ RawShots[i].y.v < 1400
        /\ RawShots[i].x.v < 2500

HasRightCorner ==
    \E i \in 1..Len(RawShots) :
        /\ RawShots[i].VALUE = 3
        /\ RawShots[i].y.v < 1400
        /\ RawShots[i].x.v > 2500

\* C5, as stated: when the game has no left-corner or no right-corner three
\* to anchor the rescale, every shot keeps its raw x and no coordinate is
\* undefined.
C5_RescaleSkippedWithoutCorners ==
    (ShotsDone /\ ~(HasLeftCorner /\ HasRightCorner)) =>
        \A i \in 1..Len(shots) :
            /\ shots[i].x = RawShots[i].x
            /\ ~shots[i].x.nan

\* The least distance from the hoop over the threes of the normalized frame
\* that lie beyond y = 14.
NormalizedMinDist == MinDist(shots)

\* C9, as stated: after the normalization the least distance from the hoop
\* over the threes from behind the arc is the radius 23.75, here to within
\* 0.05, whenever the chart holds such a three; stated for the charts whose
\* two corner anchors exist, where the rescale of x is defined.
C9_ClosestThreeOnTheArc ==
    (/\ ShotsDone
     /\ HasLeftCorner /\ HasRightCorner
     /\ BehindArk(RawShots) # <<>>) =>
        /\ ~NormalizedMinDist.nan
        /\ Abs(NormalizedMinDist.v - 2375) <= 5

\* The leaderboards are posted.
BoardsDone == players_status # <<>>

\* The rows of the players who played, in the order of the box scores.
PlayedRows == Played(upstream.box)

\* The place of a player among the rows.
PlaceOf(rows, player) ==
    CHOOSE i \in 1..Len(rows) : rows[i].PLAYER = player

\* The players of a sequence of rows or of leaderboard entries.
Names(rows) == {rows[i].PLAYER : i \in 1..Len(rows)}

\* The line of a category lists distinct players of the rows, each with its
\* value of the category, the highest values there are, in descending order.
TopValues(rows, line, stat) ==
    /\ Len(line) = Min2(3, Len(rows))
    /\ Cardinality(Names(line)) = Len(line)
    /\ Names(line) \subseteq Names(rows)
    /\ \A i \in 1..Len(line) :
          line[i].value = rows[PlaceOf(rows, line[i].PLAYER)][stat]
    /\ \A i \in 1..(Len(line) - 1) : line[i].value >= line[i + 1].value
    /\ \A i \in 1..Len(rows) :
          rows[i].PLAYER \notin Names(line)
              => \A j \in 1..Len(line) : rows[i][stat] <= line[j].value

\* Players of equal value keep the order of the rows: on the line, and
\* between the line and the players left out.
InputOrderKept(rows, line, stat) ==
    /\ \A i, j \in 1..Len(line) :
          (i < j /\ line[i].value = line[j].value)
              => PlaceOf(rows, line[i].PLAYER) < PlaceOf(rows, line[j].PLAYER)
    /\ \A i \in 1..Len(rows) : \A j \in 1..Len(line) :
          (rows[i].PLAYER \notin Names(line) /\ rows[i][stat] = line[j].value)
              => PlaceOf(rows, line[j].PLAYER) < i

Kinds == [i \in 1..Len(thread) |-> thread[i].kind]

Posted(kind) == \E i \in 1..Len(thread) : thread[i].kind = kind

\* tweet_game has returned after posting.
ThreadDone == pc = "done" /\ thread # <<>>

\* A team of the game has an entry in the report, on or before the game day.
HasInjuries ==
    \E i \in 1..Len(injury_report) :
        /\ injury_report[i].TEAM \in {away_abbr, home_abbr}
        /\ injury_report[i].DATE <= game.DATE

\* C6, as stated: a posted thread holds the header, then the team splits,
\* then the leaderboard (when there are box scores), and the link to the
\* source whatever the injury report holds.
C6_SegmentsAndLinkPosted ==
    ThreadDone =>
        /\ Kinds[1] = "game_status"
        /\ Len(thread) >= 2 /\ Kinds[2] = "teams_status"
        /\ ~upstream.box_error
              => Len(thread) >= 3 /\ Kinds[3] = "players_status"
        /\ Posted("link_to_source")

\* C7: when get_box_scores raises ValueError tweet_game goes on to its end:
\* the header is the first post, the second is the one notice that there
\* are no box scores, posted with the shot chart, no leaderboard is posted,
\* the injury texts are posted when there are any, and every post replies
\* to the one before.
C7_NoBoxScoresNotice ==
    (upstream.box_error /\ ThreadDone) =>
        /\ Kinds[1] = "game_status"
        /\ Len(thread) >= 2
        /\ Kinds[2] = "teams_status"
        /\ thread[2].text = "Sorry, no box scores for this game"
        /\ thread[2].media = "shots.png"
        /\ shots # <<>>
        /\ Cardinality({i \in 1..Len(thread) :
                           thread[i].kind = "teams_status"}) = 1
        /\ ~Posted("players_status")
        /\ HasInjuries <=> Posted("injury_status")
        /\ thread[1].in_reply_to = 0
        /\ \A i \in 2..Len(thread) : thread[i].in_reply_to = thread[i - 1].id

\* C7, witness: a thread without box scores that ends after two injury
\* texts.
C7_Witness ==
    /\ upstream.box_error
    /\ ThreadDone
    /\ Cardinality({i \in 1..Len(thread) :
                       thread[i].kind = "injury_status"}) = 2

=============================================================================
